---- MODULE Spec2Model ----
(***************************************************************************)
(* A model of the repo-inspector test sources:                             *)
(*   src/test_project/{utils.c, math_utils.c, main.c}   arithmetic helpers *)
(*                                                      and their driver   *)
(*   src/tests/fixtures/complex.c                       recursive          *)
(*                                                      fibonacci and its  *)
(*                                                      printer            *)
(* The two directories are two programs (each has a main).  Spec is the    *)
(* test_project program and its library entry points, FixtureSpec is       *)
(* complex.c, FairFixtureSpec is complex.c run by a processor that never   *)
(* stops while a step is possible.                                         *)
(*                                                                         *)
(* int is a two's-complement integer of IntBits bits.  The sources never   *)
(* guard an overflow; the value modelled for an overflowing +, - or * is   *)
(* the wrapped one, which is what the add/sub/imul instructions compiled   *)
(* from these one-line functions leave in the result register.             *)
(***************************************************************************)
EXTENDS Integers, Sequences, FiniteSets, TLC

\* ------------------------------------------------------------------ bounds

\* Width of int in bits (the model is scaled down from 32).
IntBits == 7

\* Largest |n| passed to fibonacci by an outside caller.
MaxN == 11

\* Largest |count| passed to print_sequence by an outside caller.
MaxCount == 10

\* ------------------------------------------------------------- the int type

TwoPow == 2 ^ IntBits

INT_MAX == 2 ^ (IntBits - 1) - 1

INT_MIN == -(2 ^ (IntBits - 1))

CInt == INT_MIN .. INT_MAX

\* The value an int register holds after an operation whose mathematical
\* result is x: x reduced modulo 2^IntBits into INT_MIN..INT_MAX.
WrapInt(x) == ((x - INT_MIN) % TwoPow) + INT_MIN

\* C's % truncates toward zero: the remainder has the sign of the dividend.
CRem(x, m) == IF x >= 0 THEN x % m ELSE -((-x) % m)

\* ------------------------------------------------------- the double type
\* Every double these sources produce is an int or an int divided by 2.0,
\* both exact in binary floating point: a double is the fraction num/den in
\* lowest terms, den being 1 or 2.

DoubleOfInt(x) == [num |-> x, den |-> 1]

\* d / 2.0 for a double d that holds an integer.
DivByTwo(d) == IF d.num % 2 = 0 THEN [num |-> d.num \div 2, den |-> 1]
                                ELSE [num |-> d.num, den |-> 2]

\* ------------------------------------------------------------ printf("%d")

Digit(d) == CASE d = 0 -> "0" [] d = 1 -> "1" [] d = 2 -> "2" [] d = 3 -> "3"
              [] d = 4 -> "4" [] d = 5 -> "5" [] d = 6 -> "6" [] d = 7 -> "7"
              [] d = 8 -> "8" [] d = 9 -> "9"

RECURSIVE Digits(_)
Digits(x) == IF x < 10 THEN Digit(x) ELSE Digits(x \div 10) \o Digit(x % 10)

\* The characters %d writes for the int x.
FormatD(x) == IF x < 0 THEN "-" \o Digits(-x) ELSE Digits(x)

\* --------------------------------------------------- utils.c, math_utils.c

\* Mutant of add: the sum clamped to the int range instead of wrapped.
add_saturating(x, y) ==
    IF x + y > INT_MAX THEN INT_MAX ELSE IF x + y < INT_MIN THEN INT_MIN ELSE x + y

add(x, y) == WrapInt(x + y)

\* Mutant of subtract: the absolute difference.
subtract_abs(x, y) == WrapInt(IF x >= y THEN x - y ELSE y - x)

subtract(x, y) == WrapInt(x - y)

multiply(x, y) == WrapInt(x * y)

\* Mutant of is_even: the test written as "not (n % 2 == 1)".
is_even_not_one(x) == IF CRem(x, 2) = 1 THEN 0 ELSE 1

is_even(x) == IF CRem(x, 2) = 0 THEN 1 ELSE 0

\* Mutant of square_sum: the square of the sum.
square_of_sum(x, y) == WrapInt(WrapInt(x + y) * WrapInt(x + y))

square_sum(x, y) == WrapInt(WrapInt(x * x) + WrapInt(y * y))

average(x, y) == DivByTwo(DoubleOfInt(WrapInt(x + y)))

\* ------------------------------------------------------------------- state

VARIABLES
    pc,      \* where the running program is
    a, b,    \* test_project: main's locals, or a library call's arguments
    fn,      \* test_project: the library function an outside caller called
    ret,     \* the int a returned call left in the result register
    dret,    \* test_project: the double a returned call left
    out,     \* everything written to stdout so far
    status,  \* the process's exit status, -1 while it runs
    entry,   \* complex.c: the function the run entered
    order,   \* complex.c: which operand of line 6's + the build calls first
    n,       \* complex.c: the argument of the outermost fibonacci call
    stack,   \* complex.c: the active fibonacci calls, outermost first
    calls,   \* complex.c: fibonacci calls made since the outermost one began
    count,   \* complex.c: print_sequence's parameter
    i        \* complex.c: print_sequence's loop variable

vars == <<pc, a, b, fn, ret, dret, out, status, entry, order, n, stack, calls, count, i>>

projVars == <<a, b, fn, dret>>

fixVars == <<entry, order, n, stack, calls, count, i>>

\* ------------------------------------------------------ test_project/main.c

\* Either the driver starts (a and b are not yet set), or an outside caller
\* is about to call one library function with arguments a and b.
Init ==
    /\ ret = 0
    /\ dret = DoubleOfInt(0)
    /\ out = ""
    /\ status = -1
    /\ fn = "none"
    /\ entry = "none" /\ order = "lr" /\ n = 0 /\ stack = <<>>
    /\ calls = 0 /\ count = 0 /\ i = 0
    /\ \/ pc = "main8" /\ a = 0 /\ b = 0
       \/ pc = "call" /\ a \in CInt /\ b \in CInt

MainHello ==
    /\ pc = "main8"
    /\ out' = out \o "Hello, World!\n"
    /\ pc' = "main10"
    /\ UNCHANGED <<a, b, fn, ret, dret, status, fixVars>>

MainLocals ==
    /\ pc = "main10"
    /\ a' = 5
    /\ b' = 3
    /\ pc' = "main11"
    /\ UNCHANGED <<fn, ret, dret, out, status, fixVars>>

MainAdd ==
    /\ pc = "main11"
    /\ ret' = add(a, b)
    /\ out' = out \o FormatD(a) \o " + " \o FormatD(b) \o " = " \o FormatD(ret') \o "\n"
    /\ pc' = "main12"
    /\ UNCHANGED <<a, b, fn, dret, status, fixVars>>

MainSubtract ==
    /\ pc = "main12"
    /\ ret' = subtract(a, b)
    /\ out' = out \o FormatD(a) \o " - " \o FormatD(b) \o " = " \o FormatD(ret') \o "\n"
    /\ pc' = "main13"
    /\ UNCHANGED <<a, b, fn, dret, status, fixVars>>

MainMultiply ==
    /\ pc = "main13"
    /\ ret' = multiply(a, b)
    /\ out' = out \o FormatD(a) \o " * " \o FormatD(b) \o " = " \o FormatD(ret') \o "\n"
    /\ pc' = "main15"
    /\ UNCHANGED <<a, b, fn, dret, status, fixVars>>

\* Mutant of MainParity: the two branches of line 15's if exchanged.
MainParityInverted ==
    /\ pc = "main15"
    /\ ret' = is_even(a)
    /\ out' = IF ret' # 0 THEN out \o FormatD(a) \o " is odd\n"
                          ELSE out \o FormatD(a) \o " is even\n"
    /\ pc' = "main21"
    /\ UNCHANGED <<a, b, fn, dret, status, fixVars>>

MainParity ==
    /\ pc = "main15"
    /\ ret' = is_even(a)
    /\ out' = IF ret' # 0 THEN out \o FormatD(a) \o " is even\n"
                          ELSE out \o FormatD(a) \o " is odd\n"
    /\ pc' = "main21"
    /\ UNCHANGED <<a, b, fn, dret, status, fixVars>>

MainReturn ==
    /\ pc = "main21"
    /\ status' = 0
    /\ pc' = "exit"
    /\ UNCHANGED <<a, b, fn, ret, dret, out, fixVars>>

\* ------------------------------------------ calls from an outside caller

CallAdd ==
    /\ pc = "call"
    /\ fn' = "add"
    /\ ret' = add(a, b)
    /\ pc' = "returned"
    /\ UNCHANGED <<a, b, dret, out, status, fixVars>>

CallSubtract ==
    /\ pc = "call"
    /\ fn' = "subtract"
    /\ ret' = subtract(a, b)
    /\ pc' = "returned"
    /\ UNCHANGED <<a, b, dret, out, status, fixVars>>

CallMultiply ==
    /\ pc = "call"
    /\ fn' = "multiply"
    /\ ret' = multiply(a, b)
    /\ pc' = "returned"
    /\ UNCHANGED <<a, b, dret, out, status, fixVars>>

CallIsEven ==
    /\ pc = "call"
    /\ fn' = "is_even"
    /\ ret' = is_even(a)
    /\ pc' = "returned"
    /\ UNCHANGED <<a, b, dret, out, status, fixVars>>

CallSquareSum ==
    /\ pc = "call"
    /\ fn' = "square_sum"
    /\ ret' = square_sum(a, b)
    /\ pc' = "returned"
    /\ UNCHANGED <<a, b, dret, out, status, fixVars>>

CallAverage ==
    /\ pc = "call"
    /\ fn' = "average"
    /\ dret' = average(a, b)
    /\ pc' = "returned"
    /\ UNCHANGED <<a, b, ret, out, status, fixVars>>

Next ==
    \/ MainHello
    \/ MainLocals
    \/ MainAdd
    \/ MainSubtract
    \/ MainMultiply
    \/ MainParity
    \/ MainReturn
    \/ CallAdd
    \/ CallSubtract
    \/ CallMultiply
    \/ CallIsEven
    \/ CallSquareSum
    \/ CallAverage

Spec == Init /\ [][Next]_vars

\* ------------------------------------------------- tests/fixtures/complex.c

\* Mutants of IsBase: the guard written n <= 2, and n <= 0.
IsBaseUpTo2(x) == x <= 2

IsBaseUpTo0(x) == x <= 0

\* Line 5's guard.
IsBase(x) == x <= 1

\* Mutant of BaseValue: a negative argument answered with 0.
BaseValueClamped(x) == IF x < 0 THEN 0 ELSE x

\* Line 5's return value.
BaseValue(x) == x

\* fibonacci as a function of its argument: what one whole call returns.
RECURSIVE fibonacci(_)
fibonacci(x) ==
    IF IsBase(x) THEN BaseValue(x)
                 ELSE WrapInt(fibonacci(x - 1) + fibonacci(x - 2))

\* Mutant of LoopCond: the loop run once too often.
LoopCondInclusive(k, c) == k <= c

\* Line 10's loop condition.
LoopCond(k, c) == k < c

\* A fresh activation of fibonacci(x), about to run line 5.  lhs and rhs are
\* the temporaries holding the operands of line 6's +.
Frame(x) == [n |-> x, at |-> "L5", lhs |-> 0, rhs |-> 0]

Top == stack[Len(stack)]

Pop == SubSeq(stack, 1, Len(stack) - 1)

\* The argument of the operand line 6 evaluates first, and second: C leaves
\* the order of the two calls to the build.
FirstArg(x) == IF order = "lr" THEN x - 1 ELSE x - 2

SecondArg(x) == IF order = "lr" THEN x - 2 ELSE x - 1

\* The frame f with the value v of the operand evaluated first, and second.
StoreFirst(f, v) == IF order = "lr" THEN [f EXCEPT !.lhs = v] ELSE [f EXCEPT !.rhs = v]

StoreSecond(f, v) == IF order = "lr" THEN [f EXCEPT !.rhs = v] ELSE [f EXCEPT !.lhs = v]

\* Where control is once the top activation has returned.
AfterReturn(s) == IF s = <<>> THEN "fib_returned" ELSE "fib_run"

\* The run enters main, or an outside caller is about to call fibonacci(n)
\* or print_sequence(count).
FixInit ==
    /\ ret = 0
    /\ dret = DoubleOfInt(0)
    /\ out = ""
    /\ status = -1
    /\ fn = "none" /\ a = 0 /\ b = 0
    /\ order \in {"lr", "rl"}
    /\ stack = <<>>
    /\ calls = 0
    /\ i = 0
    /\ \/ entry = "main" /\ pc = "main16" /\ n = 0 /\ count = 0
       \/ entry = "fibonacci" /\ pc = "fib_call" /\ n \in -MaxN .. MaxN /\ count = 0
       \/ entry = "print_sequence" /\ pc = "ps_call" /\ n = 0
          /\ count \in -MaxCount .. MaxCount

\* The outside caller's call fibonacci(n).
FibEnter ==
    /\ pc = "fib_call"
    /\ stack' = <<Frame(n)>>
    /\ calls' = 1
    /\ pc' = "fib_run"
    /\ UNCHANGED <<ret, out, status, entry, order, n, count, i, projVars>>

\* Line 5, guard true: return n.
FibBase ==
    /\ pc = "fib_run"
    /\ Top.at = "L5"
    /\ IsBase(Top.n)
    /\ ret' = BaseValue(Top.n)
    /\ stack' = Pop
    /\ pc' = AfterReturn(stack')
    /\ UNCHANGED <<out, status, entry, order, n, calls, count, i, projVars>>

\* Line 5, guard false; line 6 calls its first operand.
FibFirst ==
    /\ pc = "fib_run"
    /\ Top.at = "L5"
    /\ ~IsBase(Top.n)
    /\ stack' = Append([stack EXCEPT ![Len(stack)].at = "first"], Frame(FirstArg(Top.n)))
    /\ calls' = calls + 1
    /\ UNCHANGED <<pc, ret, out, status, entry, order, n, count, i, projVars>>

\* Line 6: the first operand has returned; call the second.
FibSecond ==
    /\ pc = "fib_run"
    /\ Top.at = "first"
    /\ stack' = Append([stack EXCEPT ![Len(stack)] =
                            [StoreFirst(Top, ret) EXCEPT !.at = "second"]],
                       Frame(SecondArg(Top.n)))
    /\ calls' = calls + 1
    /\ UNCHANGED <<pc, ret, out, status, entry, order, n, count, i, projVars>>

\* Line 6: the second operand has returned; add and return.
FibSum ==
    /\ pc = "fib_run"
    /\ Top.at = "second"
    /\ ret' = WrapInt(StoreSecond(Top, ret).lhs + StoreSecond(Top, ret).rhs)
    /\ stack' = Pop
    /\ pc' = AfterReturn(stack')
    /\ UNCHANGED <<out, status, entry, order, n, calls, count, i, projVars>>

\* complex.c's main, line 16: print_sequence(10).
FixMainCall ==
    /\ pc = "main16"
    /\ count' = 10
    /\ pc' = "ps_call"
    /\ UNCHANGED <<ret, out, status, entry, order, n, stack, calls, i, projVars>>

\* Line 10: int i = 0.
PSEnter ==
    /\ pc = "ps_call"
    /\ i' = 0
    /\ pc' = "ps_test"
    /\ UNCHANGED <<ret, out, status, entry, order, n, stack, calls, count, projVars>>

\* Lines 10-11: the condition holds; print fibonacci(i) and a space; i++.
PSBody ==
    /\ pc = "ps_test"
    /\ LoopCond(i, count)
    /\ ret' = fibonacci(i)
    /\ out' = out \o FormatD(ret') \o " "
    /\ i' = WrapInt(i + 1)
    /\ UNCHANGED <<pc, status, entry, order, n, stack, calls, count, projVars>>

\* Line 10: the condition fails; print_sequence returns.
PSExit ==
    /\ pc = "ps_test"
    /\ ~LoopCond(i, count)
    /\ pc' = IF entry = "main" THEN "main17" ELSE "ps_returned"
    /\ UNCHANGED <<ret, out, status, entry, order, n, stack, calls, count, i, projVars>>

\* complex.c's main, line 17: return 0.
FixMainReturn ==
    /\ pc = "main17"
    /\ status' = 0
    /\ pc' = "exit"
    /\ UNCHANGED <<ret, out, entry, order, n, stack, calls, count, i, projVars>>

FixNext ==
    \/ FibEnter
    \/ FibBase
    \/ FibFirst
    \/ FibSecond
    \/ FibSum
    \/ FixMainCall
    \/ PSEnter
    \/ PSBody
    \/ PSExit
    \/ FixMainReturn

FixtureSpec == FixInit /\ [][FixNext]_vars

\* complex.c is one sequential thread: it takes its next step whenever it
\* has one.
FairFixtureSpec == FixtureSpec /\ WF_vars(FixNext)

\* ================================================================== claims

\* The mathematical Fibonacci numbers, computed by iteration on the pair
\* (F(k), F(k+1)), with no bound on their size.
RECURSIVE FibIter(_, _, _)
FibIter(k, x, y) == IF k = 0 THEN x ELSE FibIter(k - 1, y, x + y)

F(m) == FibIter(m, 0, 1)

Max(x, y) == IF x >= y THEN x ELSE y

\* C1: for every n >= 0 whose Fibonacci number fits in int, the call
\* fibonacci(n) returns F(n); fibonacci(0) = 0, fibonacci(1) = 1,
\* fibonacci(5) = 5 and fibonacci(10) = 55.
C1_FibonacciReturnsNth ==
    (pc = "fib_returned" /\ n >= 0 /\ F(n) <= INT_MAX) =>
        /\ ret = F(n)
        /\ fibonacci(n) = F(n)
        /\ (n = 0 => ret = 0)
        /\ (n = 1 => ret = 1)
        /\ (n = 5 => ret = 5)
        /\ (n = 10 => ret = 55)

C1_Witness == pc = "fib_returned" /\ n = 10 /\ ret = 55

\* C2: print_sequence(count) with count >= 0 writes fibonacci(0), ...,
\* fibonacci(count-1) in that order, each followed by one space and nothing
\* else: after k turns of the loop the output is the text of the first k
\* values, it returns after exactly count turns, print_sequence(10) wrote
\* "0 1 1 2 3 5 8 13 21 34 " and print_sequence(0) wrote nothing.
RECURSIVE SeqText(_)
SeqText(k) == IF k <= 0 THEN "" ELSE SeqText(k - 1) \o FormatD(fibonacci(k - 1)) \o " "

PSReturned == pc \in {"ps_returned", "main17", "exit"}

C2_PrintSequenceOutput ==
    (count >= 0 /\ (pc = "ps_test" \/ PSReturned)) =>
        /\ i \in 0 .. count
        /\ out = SeqText(i)
        /\ (PSReturned => i = count)
        /\ (PSReturned /\ count = 10 => out = "0 1 1 2 3 5 8 13 21 34 ")
        /\ (PSReturned /\ count = 0 => out = "")

C2_Witness == entry = "main" /\ pc = "exit" /\ out = "0 1 1 2 3 5 8 13 21 34 "

\* C3: for every negative n, fibonacci(n) returns n, from the first
\* activation's line 5, with no second activation ever made.
C3_NegativeReturnsItself ==
    (entry = "fibonacci" /\ n < 0) =>
        /\ calls <= 1
        /\ Len(stack) <= 1
        /\ (pc = "fib_returned" => ret = n /\ calls = 1)
        /\ fibonacci(n) = n

C3_Witness == pc = "fib_returned" /\ n < -1 /\ ret = n /\ calls = 1

\* C4: for every int n, is_even(n) is 1 when n is a multiple of 2 and 0
\* when it is not, and never anything else.
C4_IsEvenIffMultipleOfTwo ==
    (pc = "returned" /\ fn = "is_even") =>
        /\ ret \in {0, 1}
        /\ (ret = 1 <=> \E k \in CInt : a = 2 * k)

C4_Witness == pc = "returned" /\ fn = "is_even" /\ a < 0 /\ a % 2 = 1 /\ ret = 0

\* The unary minus of an int expression, as the comparison in C5 computes it.
CNeg(x) == WrapInt(-x)

\* C5: for all ints a and b, subtract(a,b) equals the int negation of
\* subtract(b,a), also where the difference overflows and wraps.
C5_SubtractAntisymmetric ==
    (pc = "returned" /\ fn = "subtract") => ret = CNeg(subtract(b, a))

C5_Witness ==
    pc = "returned" /\ fn = "subtract" /\ a - b > INT_MAX /\ ret = INT_MIN

\* C6: for all ints a and b, add(a,b) is the int congruent to a+b modulo
\* 2^IntBits, and equals add(b,a).
C6_AddCommutesAndWraps ==
    (pc = "returned" /\ fn = "add") =>
        /\ ret \in CInt
        /\ (ret - (a + b)) % TwoPow = 0
        /\ ret = add(b, a)

C6_Witness == pc = "returned" /\ fn = "add" /\ a + b > INT_MAX /\ a # b /\ ret < 0

\* C7: for any ints a and b, twice average(a,b) is the mathematical sum
\* a+b; average(4,6) is 5.0 and average(5,3) is 4.0.
C7_AverageIsHalfOfSum ==
    (pc = "returned" /\ fn = "average") =>
        /\ 2 * dret.num = (a + b) * dret.den
        /\ (a = 4 /\ b = 6 => dret = [num |-> 5, den |-> 1])
        /\ (a = 5 /\ b = 3 => dret = [num |-> 4, den |-> 1])

\* C8: for any ints a and b, square_sum(a,b) is the int congruent to
\* a*a + b*b modulo 2^IntBits (each product and the sum wrapping), equals
\* square_sum(b,a), and square_sum(3,4) is 25.
C8_SquareSum ==
    (pc = "returned" /\ fn = "square_sum") =>
        /\ ret \in CInt
        /\ (ret - (a * a + b * b)) % TwoPow = 0
        /\ ret = square_sum(b, a)
        /\ (a = 3 /\ b = 4 => ret = 25)

C8_Witness == pc = "returned" /\ fn = "square_sum" /\ a = 3 /\ b = 4 /\ ret = 25

\* C9: test_project's main writes "Hello, World!", "5 + 3 = 8",
\* "5 - 3 = 2", "5 * 3 = 15" and "5 is odd", one line each, in this order and
\* nothing else, never "is even"; it always has a next step until it has
\* returned, and it returns 0.
MainPcs == {"main8", "main10", "main11", "main12", "main13", "main15", "main21", "exit"}

MainOutputAt(p) ==
    CASE p = "main8" -> ""
      [] p \in {"main10", "main11"} -> "Hello, World!\n"
      [] p = "main12" -> "Hello, World!\n5 + 3 = 8\n"
      [] p = "main13" -> "Hello, World!\n5 + 3 = 8\n5 - 3 = 2\n"
      [] p = "main15" -> "Hello, World!\n5 + 3 = 8\n5 - 3 = 2\n5 * 3 = 15\n"
      [] p \in {"main21", "exit"} ->
            "Hello, World!\n5 + 3 = 8\n5 - 3 = 2\n5 * 3 = 15\n5 is odd\n"

C9_DriverOutput ==
    (pc \in MainPcs) =>
        /\ out = MainOutputAt(pc)
        /\ (pc = "exit" => status = 0)
        /\ (pc # "exit" => status = -1 /\ ENABLED Next)

C9_Witness ==
    /\ pc = "exit"
    /\ status = 0
    /\ out = "Hello, World!\n5 + 3 = 8\n5 - 3 = 2\n5 * 3 = 15\n5 is odd\n"

\* C10: for every n, the evaluation of fibonacci(n) ends; meanwhile the
\* arguments of the active calls strictly decrease from the outermost call
\* inward, every call below the outermost has an argument >= 0 (so it stops
\* at 0 or 1), and at most max(1, n) calls are active at once, although
\* 2*F(n+1) - 1 calls are made in all for n >= 0.
C10_DepthBounded ==
    (entry = "fibonacci") =>
        /\ Len(stack) <= Max(1, n)
        /\ \A k \in 1 .. Len(stack) - 1 : stack[k + 1].n < stack[k].n
        /\ \A k \in 2 .. Len(stack) : stack[k].n >= 0
        /\ \A k \in 1 .. Len(stack) :
              (stack[k].at = "L5" /\ IsBase(stack[k].n)) =>
                  (stack[k].n \in {0, 1} \/ (k = 1 /\ stack[k].n = n))
        /\ (pc = "fib_returned" /\ n >= 0 => calls = 2 * F(n + 1) - 1)

C10_FibonacciTerminates ==
    /\ []C10_DepthBounded
    /\ (entry = "fibonacci") ~> (pc = "fib_returned")

C10_Witness == entry = "fibonacci" /\ n >= 3 /\ Len(stack) = n /\ Top.n = 1

====
